---- MODULE Spec2Model ----
(***************************************************************************)
(* Prompt fragments, the truncating fragment, the main prompt assembler    *)
(* and the answer parsers of agenthub/world_model_agent/prompt.py.         *)
(*                                                                         *)
(* A text is a sequence of tokens.  A token is a record [k, n]: k is the   *)
(* literal characters (or the name of an opaque piece of content) and n    *)
(* the number that is formatted into it.  The newline is a token of its    *)
(* own, so that str.splitlines and str.join are computed on the text and   *)
(* not assumed.                                                            *)
(***************************************************************************)
EXTENDS Integers, Sequences, FiniteSets, TLC

VARIABLES
    \* ---- one prompt fragment (PromptElement and its subclasses) ----
    kind,                       \* the class of the fragment
    _visible,                   \* PromptElement._visible
    flag,                       \* what a callable _visible returns now
    _prompt,                    \* PromptElement._prompt
    original,                   \* the _prompt the constructor built, before any shrink()
    _abstract_ex,               \* PromptElement._abstract_ex
    _concrete_ex,               \* PromptElement._concrete_ex
    start_trunkate_iteration,   \* Trunkater.start_trunkate_iteration
    shrink_calls,               \* Trunkater.shrink_calls
    deleted_lines,              \* Trunkater.deleted_lines
    op,                         \* the last operation applied to the fragment
    rendered,                   \* what the last render returned
    \* ---- one MyMainPrompt ----
    pc,                         \* "new", "built" (constructed) or "raised"
    debug,                      \* __debug__: assert statements are executed
    obs_history,                \* MyMainPrompt.obs_history
    states,                     \* MyMainPrompt.states
    strategies,                 \* MyMainPrompt.strategies
    actions,                    \* MyMainPrompt.actions
    active_strategy,            \* MyMainPrompt.active_strategy
    history,                    \* MyMainPrompt.history
    history_steps,              \* MyMainPrompt.history_steps
    history_args,               \* the arguments of the get_history call that built them
    obs,                        \* MyMainPrompt.obs: [set, text], set = FALSE while unset
    err,                        \* the exception the last call raised, or "none"
    out,                        \* the prompt the last get_*_prompt call returned
    \* ---- one reply of the model and its parse ----
    text_answer,                \* the reply: its <tag>body</tag> parts, in order
    action_space,               \* MyMainPrompt.action_space
    parser,                     \* the parser that was called, or "none"
    compiled,                   \* the action_space.to_python_code call and its outcome
    parsed                      \* what the parser returned or raised

fragVars == <<kind, _visible, flag, _prompt, original, _abstract_ex, _concrete_ex,
              start_trunkate_iteration, shrink_calls, deleted_lines, op, rendered>>

mainVars == <<pc, debug, obs_history, states, strategies, actions, active_strategy,
              history, history_steps, history_args, obs, err, out>>

parseVars == <<text_answer, action_space, parser, compiled, parsed>>

vars == <<fragVars, mainVars, parseVars>>

----------------------------------------------------------------------------
(* Bounds of the model *)

MaxLines == 5           \* content lines of an HTML / AXTree dump: 0..MaxLines
LongDump == 88          \* one long accessibility-tree dump (90 lines of text)
MaxShrinkCalls == 14    \* shrink() is called at most this many times
MaxTags == 3            \* a reply holds at most this many tagged parts
MaxLen == 4             \* states, strategies, actions: 0..MaxLen entries each;
                        \* observations: 0..MaxLen + 1

----------------------------------------------------------------------------
(* Texts *)

Tok(k, n) == [k |-> k, n |-> n]
Lit(s) == Tok(s, 0)
NL == Lit("\n")
Empty == <<>>

\* str.splitlines: every newline ends a line (an empty one too); what follows
\* the last newline is a line only when it is not empty.
splitlines(text) ==
    LET n == Len(text)
        IsNewline(i) == text[i] = NL
        \* the positions of the newlines, in order
        nl == SelectSeq([i \in 1..n |-> i], IsNewline)
        cnt == Len(nl)
        end == IF cnt = 0 THEN 0 ELSE nl[cnt]
        total == IF end < n THEN cnt + 1 ELSE cnt
    IN  [k \in 1..total |->
            SubSeq(text, IF k = 1 THEN 1 ELSE nl[k - 1] + 1,
                         IF k <= cnt THEN nl[k] - 1 ELSE n)]

\* '\n'.join(lines)
RECURSIVE join(_)
join(lines) ==
    IF lines = <<>> THEN <<>>
    ELSE IF Len(lines) = 1 THEN lines[1]
    ELSE LET h == Len(lines) \div 2
         IN  join(SubSeq(lines, 1, h)) \o <<NL>> \o join(SubSeq(lines, h + 1, Len(lines)))

\* lines[:n]
Take(lines, n) == SubSeq(lines, 1, IF n < Len(lines) THEN n ELSE Len(lines))

\* lines[-n:] for n > 0
Last(lines, n) ==
    IF Len(lines) <= n THEN lines ELSE SubSeq(lines, Len(lines) - n + 1, Len(lines))

\* content line i of a dump
ContentLine(i) == <<Tok("line", i)>>
Content(n) == join([i \in 1..n |-> ContentLine(i)])

----------------------------------------------------------------------------
(* PromptElement: visibility *)

\* _visible is a bool, a str (Error is given the error text), or a callable
VBool(b) == [type |-> "bool", b |-> b, s |-> <<>>]
VStr(s) == [type |-> "str", b |-> FALSE, s |-> s]
VCallable == [type |-> "callable", b |-> FALSE, s |-> <<>>]

\* the truth value Python gives an object in `if`
Truthy(v) == IF v.type = "bool" THEN v.b ELSE v.s # <<>>

is_visible(visible, f) ==
    IF visible.type = "callable" THEN VBool(f) ELSE visible

HideNever(visible, f, value) == value

_hide(visible, f, value) ==
    IF Truthy(is_visible(visible, f)) THEN value ELSE Empty

prompt(visible, f, p) == _hide(visible, f, p)
abstract_ex(visible, f, a) == _hide(visible, f, a)
concrete_ex(visible, f, c) == _hide(visible, f, c)

----------------------------------------------------------------------------
(* Trunkater *)

shrink_speed_num == 3
shrink_speed_den == 10

RECURSIVE Pow2Below(_, _)
\* the largest power of two p * 2^i that is <= k (k >= 1, called with p = 1)
Pow2Below(k, p) == IF 2 * p <= k THEN Pow2Below(k, 2 * p) ELSE p

\* int(n * (1 - shrink_speed)) in IEEE-754 double arithmetic, shrink_speed = 0.3.
\* 1 - 0.3 rounds to the double 0.7d = 0.7 - 0.4 * 2^-53.  When 7n/10 is not an
\* integer the rounding of n * 0.7d cannot cross an integer and int() gives
\* floor(7n/10).  When 7n/10 = K is an integer the exact product is
\* K - (4K/7) * 2^-53, the doubles below K are 2^e * 2^-52 apart (2^e <= K <
\* 2^(e+1)), and the product rounds down to the double below K exactly when
\* 4K > 7 * 2^e: then int() gives K - 1.  (First at n = 90: int(90 * 0.7) = 62.)
FloatTrunc(n) ==
    LET den == shrink_speed_den
        num == shrink_speed_den - shrink_speed_num
        K == (num * n) \div den
    IN  IF n > 0 /\ (num * n) % den = 0 /\ 4 * K > 7 * Pow2Below(K, 1)
        THEN K - 1
        ELSE K

\* new_line_count = int(len(lines) * (1 - self.shrink_speed))
NewLineCount(n) == FloatTrunc(n)

Marker(d) == Tok("... Deleted {} lines to reduce prompt size.", d)

TruncatesOr(visible, f, calls, start) ==
    Truthy(is_visible(visible, f)) \/ calls >= start

TruncatesLate(visible, f, calls, start) ==
    Truthy(is_visible(visible, f)) /\ calls > start

\* if self.is_visible and self.shrink_calls >= self.start_trunkate_iteration
Truncates(visible, f, calls, start) ==
    Truthy(is_visible(visible, f)) /\ calls >= start

\* the fields shrink() writes, as a function of the fragment before the call
ShrinkOf(fr) ==
    LET lines == splitlines(fr.p)
        new_line_count == NewLineCount(Len(lines))
        deleted == fr.deleted + (Len(lines) - new_line_count)
    IN  IF Truncates(fr.visible, fr.f, fr.calls, fr.start)
        THEN [fr EXCEPT !.p = join(Take(lines, new_line_count)) \o <<NL, Marker(deleted)>>,
                        !.deleted = deleted,
                        !.calls = fr.calls + 1]
        ELSE [fr EXCEPT !.calls = fr.calls + 1]

\* the fragment, as ShrinkOf reads it
Frag == [p |-> _prompt, deleted |-> deleted_lines, calls |-> shrink_calls,
         start |-> start_trunkate_iteration, visible |-> _visible, f |-> flag]

Shrinkable == {"Trunkater", "HTML", "AXTree"}

----------------------------------------------------------------------------
(* Constructors *)

Prefixes == {Empty, <<Lit("## ")>>}

CoordNote(coord_type) ==
    IF coord_type = "center"
      THEN <<Lit("Note: center coordinates are provided in parenthesis and are"), NL,
             Lit("  relative to the top left corner of the page."), NL, NL>>
    ELSE IF coord_type = "box"
      THEN <<Lit("Note: bounding box of each object are provided in parenthesis and are"), NL,
             Lit("  relative to the top left corner of the page."), NL, NL>>
    ELSE Empty

HTMLPrompt(html, prefix) == <<NL>> \o prefix \o <<Lit("HTML:"), NL>> \o html \o <<NL>>

AXTreePrompt(ax_tree, coord_type, prefix) ==
    <<NL>> \o prefix
      \o <<Lit("AXTree (you may only interact with elements in this tree):"), NL>>
      \o CoordNote(coord_type) \o ax_tree \o <<NL>>

ErrorPrompt(error, prefix) ==
    <<NL>> \o prefix \o <<Lit("Error from previous action:"), NL>> \o error \o <<NL>>

HTMLStart == 5
AXTreeStart == 10
TrunkaterStart == 10

\* what the external action space returns
Describe == <<Lit("action_space.describe(with_long_description=False, with_examples=True)")>>
ExampleAction(abstract) ==
    <<Lit(IF abstract THEN "action_space.example_action(abstract=True)"
                      ELSE "action_space.example_action(abstract=False)")>>

ActionSpacePrompt == <<Lit("# Action space:"), NL>> \o Describe \o <<NL>>
ActionSpaceExample(abstract) ==
    <<NL, Lit("<action>"), NL>> \o ExampleAction(abstract) \o <<NL, Lit("</action>"), NL>>

ErrorTexts == {Empty, <<Tok("last_action_error", 1)>>}

\* the visible argument of a fragment: a bool or a zero-argument predicate
VisibleArgs == {VBool(TRUE), VBool(FALSE), VCallable}

NoRender == [prompt |-> Empty, abstract_ex |-> Empty, concrete_ex |-> Empty]

NewFragment(k, visible, p, a, c, start) ==
    /\ kind = k
    /\ _visible = visible
    /\ flag \in (IF visible.type = "callable" THEN BOOLEAN ELSE {FALSE})
    /\ _prompt = p
    /\ original = p
    /\ _abstract_ex = a
    /\ _concrete_ex = c
    /\ start_trunkate_iteration = start
    /\ shrink_calls = 0
    /\ deleted_lines = 0
    /\ op = "init"
    /\ rendered = NoRender

\* None, and a value that is None or a text
None == <<Tok("None", 0)>>

NoArgs == [states |-> <<>>, strategies |-> <<>>, actions |-> <<>>]
Unset == [set |-> FALSE, text |-> Empty]

\* the action space: None (the default of MyMainPrompt), or an action set
\* that compiles the actions it recognizes
NoActionSpace == [none |-> TRUE, recognized |-> {}]
Click41 == <<Lit("click('41')")>>
Fly == <<Lit("fly()")>>
HighLevelActionSet == [none |-> FALSE, recognized |-> {Click41}]

NotCalled == [called |-> FALSE, ok |-> FALSE, text |-> Empty, e |-> Empty]
NoDict == [k \in {} |-> Empty]
NotParsed == [kind |-> "none", exc |-> "none", ans |-> NoDict, msg |-> Empty]

\* no reply is being parsed
IdleParser ==
    /\ text_answer = <<>>
    /\ action_space = NoActionSpace
    /\ parser = "none"
    /\ compiled = NotCalled
    /\ parsed = NotParsed

\* no MyMainPrompt is under construction
IdleMain ==
    /\ pc = "new"
    /\ debug \in BOOLEAN
    /\ obs_history = <<>>
    /\ states = <<>>
    /\ strategies = <<>>
    /\ actions = <<>>
    /\ active_strategy = None
    /\ history = Empty
    /\ history_steps = <<>>
    /\ history_args = NoArgs
    /\ obs = Unset
    /\ err = "none"
    /\ out = Empty

\* no fragment is under study
IdleFragment ==
    /\ kind = "none"
    /\ _visible = VBool(TRUE)
    /\ flag = FALSE
    /\ _prompt = Empty
    /\ original = Empty
    /\ _abstract_ex = Empty
    /\ _concrete_ex = Empty
    /\ start_trunkate_iteration = 0
    /\ shrink_calls = 0
    /\ deleted_lines = 0
    /\ op = "init"
    /\ rendered = NoRender

InitFragment ==
    /\ IdleMain
    /\ IdleParser
    /\ debug = TRUE
    /\ \/ \E v \in VisibleArgs : NewFragment("Trunkater", v, Empty, Empty, Empty, TrunkaterStart)
       \/ \E v \in VisibleArgs, n \in (0..MaxLines) \cup {LongDump}, prefix \in Prefixes :
             NewFragment("HTML", v, HTMLPrompt(Content(n), prefix), Empty, Empty, HTMLStart)
       \/ \E v \in VisibleArgs, n \in (0..MaxLines) \cup {LongDump}, prefix \in Prefixes,
             coord_type \in {"none", "center", "box"} :
             NewFragment("AXTree", v, AXTreePrompt(Content(n), coord_type, prefix),
                         Empty, Empty, AXTreeStart)
       \/ \E error \in ErrorTexts, prefix \in Prefixes :
             \E v \in {VBool(TRUE), VStr(error)} :
             NewFragment("Error", v, ErrorPrompt(error, prefix), Empty, Empty, 0)
       \/ NewFragment("MyActionSpace", VBool(TRUE), ActionSpacePrompt,
                      ActionSpaceExample(TRUE), ActionSpaceExample(FALSE), 0)

----------------------------------------------------------------------------
(* Operations on the fragment *)

\* Trunkater.shrink()
Shrink ==
    /\ kind \in Shrinkable
    /\ shrink_calls < MaxShrinkCalls
    /\ _prompt' = ShrinkOf(Frag).p
    /\ deleted_lines' = ShrinkOf(Frag).deleted
    /\ shrink_calls' = ShrinkOf(Frag).calls
    /\ op' = "shrink"
    /\ UNCHANGED <<kind, _visible, flag, original, _abstract_ex, _concrete_ex,
                   start_trunkate_iteration, rendered>>
    /\ UNCHANGED <<mainVars, parseVars>>

\* reading .prompt, .abstract_ex and .concrete_ex
Render ==
    /\ rendered' = [prompt |-> prompt(_visible, flag, _prompt),
                    abstract_ex |-> abstract_ex(_visible, flag, _abstract_ex),
                    concrete_ex |-> concrete_ex(_visible, flag, _concrete_ex)]
    /\ op' = "render"
    /\ UNCHANGED <<kind, _visible, flag, _prompt, original, _abstract_ex, _concrete_ex,
                   start_trunkate_iteration, shrink_calls, deleted_lines>>
    /\ UNCHANGED <<mainVars, parseVars>>

\* the flag a callable _visible reads changes between two calls
FlagChange ==
    /\ _visible.type = "callable"
    /\ flag' = ~flag
    /\ op' = "flag"
    /\ UNCHANGED <<kind, _visible, _prompt, original, _abstract_ex, _concrete_ex,
                   start_trunkate_iteration, shrink_calls, deleted_lines, rendered>>
    /\ UNCHANGED <<mainVars, parseVars>>

NextFragment == Shrink \/ Render \/ FlagChange

SpecFragment == InitFragment /\ [][NextFragment]_vars

----------------------------------------------------------------------------
(* MyMainPrompt *)

\* the caller's sequences: entry i of each carries its index
Observation(i, error) == [axtree_txt |-> <<Tok("axtree_txt", i)>>, last_action_error |-> error]
ObsHistory(n, error) ==
    [i \in 1..n |-> Observation(i, IF i = n THEN error ELSE Empty)]
States(n) == [i \in 1..n |-> <<Tok("state", i)>>]
Strategies(n) == [i \in 1..n |-> <<Tok("strategy", i)>>]
Actions(n) == [i \in 1..n |-> <<Tok("action", i)>>]
ActiveStrategies == {None, <<Tok("active_strategy", 0)>>}

\* get_history_step(current_obs, state, strategy, action); current_obs is
\* [given, obs]: the one call passes None
NoObs == [given |-> FALSE, obs |-> Observation(0, Empty)]

get_history_step(current_obs, state, strategy, action) ==
    LET ax_tree == prompt(VBool(TRUE), FALSE,
                          AXTreePrompt(current_obs.obs.axtree_txt, "none",
                                       <<NL, Lit("#### Accessibility tree:"), NL>>))
        error == prompt(VStr(current_obs.obs.last_action_error), FALSE,
                        ErrorPrompt(current_obs.obs.last_action_error, <<Lit("#### ")>>))
        observation == error \o ax_tree
    IN  (IF current_obs.given
           THEN <<NL, Lit("### Observation:"), NL>> \o observation \o <<NL, NL>>
           ELSE <<NL, Lit("### State:"), NL>> \o state \o <<NL>>)
        \o (IF strategy # None
              THEN <<NL, Lit("### Strategy:"), NL>> \o strategy \o <<NL>>
              ELSE Empty)
        \o (IF action # None
              THEN <<NL, Lit("### Action:"), NL>> \o action \o <<NL>>
              ELSE Empty)

HistoryHeader == <<NL, Lit("# History of interaction with the task:"), NL>>
StepHeader(i) == <<Tok("## Step {}", i)>>

ActionOfStepStrict(acts, i) == IF i < Len(acts) THEN acts[i] ELSE None

\* actions[i - 1] if i <= len(actions) else None
ActionOfStep(acts, i) == IF i <= Len(acts) THEN acts[i] ELSE None

\* get_history(obs_history, states, strategies, actions): [err, steps, text]
get_history(dbg, sts, strats, acts) ==
    LET S == Len(sts)
        T == Len(strats)
        steps == [i \in 1..(S - 1) |->
                    get_history_step(NoObs, sts[i], strats[i], ActionOfStep(acts, i))]
        n == Len(steps)
        prompts == [j \in 1..(1 + 2 * n) |->
                      IF j = 1 THEN HistoryHeader
                      ELSE IF j % 2 = 0 THEN StepHeader((j \div 2) - 1)
                      ELSE steps[(j - 1) \div 2]]
    IN  IF dbg /\ ~(S = T \/ S = T + 1)
          THEN [err |-> "AssertionError", steps |-> <<>>, text |-> Empty]
        ELSE IF S - 1 > T
          \* strategies[i - 1] for an i - 1 >= len(strategies)
          THEN [err |-> "IndexError", steps |-> <<>>, text |-> Empty]
        ELSE [err |-> "none", steps |-> steps, text |-> join(prompts) \o <<NL>>]

get_obs(o) ==
    <<NL, Lit("# Observation of current step:"), NL, Lit("AXSTART")>>
      \o prompt(VBool(TRUE), FALSE, AXTreePrompt(o.axtree_txt, "none", <<Lit("## ")>>))
      \o <<Lit("AXEND")>>
      \o prompt(VStr(o.last_action_error), FALSE,
                ErrorPrompt(o.last_action_error, <<Lit("## ")>>))
      \o <<NL, NL>>

get_obs_state_without_state(o, state) == get_obs(o)

get_obs_state(o, state) ==
    get_obs(o) \o <<NL, Lit("## Current State:"), NL>> \o state \o <<NL>>

get_obs_state_strat(o, state, strategy) ==
    get_obs_state(o, state) \o <<NL, Lit("## Current Strategy:"), NL>> \o strategy \o <<NL>>

get_state(state) == <<NL, Lit("## Current State:"), NL>> \o state \o <<NL, NL>>

get_state_strat(state, strategy) ==
    get_state(state) \o <<NL, Lit("## Current Strategy:"), NL>> \o strategy \o <<NL>>

\* the five conditions of the constructor's if / elif chain
IsEncoding(O, S, T, A) == O = S + 1 /\ S = T
IsStrategy(O, S, T, A) == O = S /\ S = T + 1 /\ T = A
IsPolicy(O, S, T, A) == O = S /\ S = T /\ T = A + 1
IsForwardDynamics(O, S, T, A) == O <= S /\ S = T /\ T >= A + 1
IsRollout(O, S, T, A) == O < S /\ S = T + 1

window == 3

Text(t) == [set |-> TRUE, text |-> t]
Final(seq) == seq[Len(seq)]

CurrentStepDynamicsFirst(oh, sts, strats, acts, active) ==
    LET O == Len(oh)
        S == Len(sts)
        T == Len(strats)
        A == Len(acts)
    IN  IF IsEncoding(O, S, T, A) THEN Text(get_obs(Final(oh)))
        ELSE IF IsStrategy(O, S, T, A) THEN Text(get_obs_state(Final(oh), Final(sts)))
        ELSE IF IsForwardDynamics(O, S, T, A)
          THEN Text(get_state_strat(Final(sts), Final(strats)))
        ELSE IF IsPolicy(O, S, T, A)
          THEN Text(get_obs_state_strat(Final(oh), Final(sts), active))
        ELSE IF IsRollout(O, S, T, A) THEN Text(get_state(Final(sts)))
        ELSE Unset

CurrentStepAlwaysState(oh, sts, strats, acts, active) ==
    IF sts = <<>> THEN Text(Empty) ELSE Text(get_state(Final(sts)))

\* self.obs after the constructor's if / elif chain
CurrentStep(oh, sts, strats, acts, active) ==
    LET O == Len(oh)
        S == Len(sts)
        T == Len(strats)
        A == Len(acts)
    IN  IF IsEncoding(O, S, T, A) THEN Text(get_obs(Final(oh)))
        ELSE IF IsStrategy(O, S, T, A) THEN Text(get_obs_state(Final(oh), Final(sts)))
        ELSE IF IsPolicy(O, S, T, A)
          THEN Text(get_obs_state_strat(Final(oh), Final(sts), active))
        ELSE IF IsForwardDynamics(O, S, T, A)
          THEN Text(get_state_strat(Final(sts), Final(strats)))
        ELSE IF IsRollout(O, S, T, A) THEN Text(get_state(Final(sts)))
        ELSE Unset

\* the arguments of the get_history call whose result self.history keeps
HistoryArgs(oh, sts, strats, acts) ==
    IF IsEncoding(Len(oh), Len(sts), Len(strats), Len(acts))
    THEN [states |-> Last(sts, window), strategies |-> Last(strats, window),
          actions |-> Last(acts, window)]
    ELSE [states |-> sts, strategies |-> strats, actions |-> acts]

\* MyMainPrompt(obs_history, states, strategies, actions, active_strategy)
Construct ==
    /\ pc = "new"
    /\ \E O \in 0..(MaxLen + 1), S \in 0..MaxLen, T \in 0..MaxLen, A \in 0..MaxLen,
          error \in ErrorTexts, active \in ActiveStrategies :
          LET oh == ObsHistory(O, error)
              sts == States(S)
              strats == Strategies(T)
              acts == Actions(A)
              first == get_history(debug, sts, strats, acts)
              args == HistoryArgs(oh, sts, strats, acts)
              kept == get_history(debug, args.states, args.strategies, args.actions)
          IN  /\ obs_history' = oh
              /\ states' = sts
              /\ strategies' = strats
              /\ actions' = acts
              /\ active_strategy' = active
              /\ IF first.err # "none"
                   THEN /\ pc' = "raised"
                        /\ err' = first.err
                        /\ UNCHANGED <<history, history_steps, history_args, obs>>
                   ELSE /\ pc' = "built"
                        /\ err' = "none"
                        /\ history' = kept.text
                        /\ history_steps' = kept.steps
                        /\ history_args' = args
                        /\ obs' = CurrentStep(oh, sts, strats, acts, active)
    /\ UNCHANGED <<debug, out>>
    /\ UNCHANGED <<fragVars, parseVars>>

File(name) == <<Lit(name)>>

\* get_effectuator_prompt / get_encoder_prompt / get_policy_prompt
PromptOf(variant) ==
    CASE variant = "effectuator" ->
           history \o obs.text \o File("effectuator-abs.txt") \o File("effectuator-con.txt")
      [] variant = "encoder" ->
           history \o obs.text \o <<Lit("## Active Strategy:"), NL>> \o active_strategy
             \o <<NL>> \o File("encoder-abs.txt") \o File("encoder-con.txt")
      [] variant = "policy" ->
           history \o obs.text \o File("policy-abs.txt") \o File("policy-con.txt")

GetPrompt ==
    /\ pc = "built"
    /\ \E variant \in {"effectuator", "encoder", "policy"} :
          IF obs.set
          THEN out' = PromptOf(variant) /\ err' = "none"
          ELSE out' = Empty /\ err' = "AttributeError"
    /\ UNCHANGED <<pc, debug, obs_history, states, strategies, actions, active_strategy,
                   history, history_steps, history_args, obs>>
    /\ UNCHANGED <<fragVars, parseVars>>

\* the prompt object is dropped; the next call builds a new one
Discard ==
    /\ pc \in {"built", "raised"}
    /\ pc' = "new"
    /\ obs_history' = <<>>
    /\ states' = <<>>
    /\ strategies' = <<>>
    /\ actions' = <<>>
    /\ active_strategy' = None
    /\ history' = Empty
    /\ history_steps' = <<>>
    /\ history_args' = NoArgs
    /\ obs' = Unset
    /\ err' = "none"
    /\ out' = Empty
    /\ UNCHANGED debug
    /\ UNCHANGED <<fragVars, parseVars>>

InitMainPrompt == IdleFragment /\ IdleMain /\ IdleParser

NextMainPrompt == Construct \/ GetPrompt \/ Discard

SpecMainPrompt == InitMainPrompt /\ [][NextMainPrompt]_vars

----------------------------------------------------------------------------
(* The answer parsers *)

Tags == {"action", "explanation", "state", "progress", "strategy", "think"}
Bodies(tag) == IF tag = "action" THEN {Click41, Fly} ELSE {<<Tok(tag, 1)>>}
Parts == UNION {{[tag |-> t, body |-> b] : b \in Bodies(t)} : t \in Tags}
Replies == UNION {[1..n -> Parts] : n \in 0..MaxTags}

\* the bodies of the parts of the reply tagged key, in order
Occurrences(text, key) ==
    LET HasKey(part) == part.tag = key
        parts == SelectSeq(text, HasKey)
    IN  [i \in 1..Len(parts) |-> parts[i].body]

\* utils.parse_html_tags_raise(text, keys, optional_keys, merge_multiple=True):
\* every key of keys must occur; the occurrences of a key are merged
parse_html_tags_raise(text, keys, optional_keys) ==
    LET missing == SelectSeq(keys, LAMBDA key : Occurrences(text, key) = <<>>)
        all == {keys[i] : i \in 1..Len(keys)} \cup {optional_keys[i] : i \in 1..Len(optional_keys)}
        found == {key \in all : Occurrences(text, key) # <<>>}
    IN  IF missing # <<>>
        THEN [kind |-> "raise", exc |-> "ParseError", ans |-> NoDict,
              msg |-> <<Lit("Missing the key <{}> in the answer.")>>
                        \o [i \in 1..Len(missing) |-> Lit(missing[i])]]
        ELSE [kind |-> "return", exc |-> "none",
              ans |-> [key \in found |-> join(Occurrences(text, key))], msg |-> Empty]

\* the outcomes action_space.to_python_code(action) can have.  None has no such
\* method.  One action compiles when the set recognizes it and raises when it
\* does not; what the action set makes of several merged actions is its own affair.
ToPythonCode(space, action) ==
    IF space.none
    THEN {[called |-> TRUE, ok |-> FALSE, text |-> action,
           e |-> <<Lit("'NoneType' object has no attribute 'to_python_code'")>>]}
    ELSE LET good == [called |-> TRUE, ok |-> TRUE, text |-> action, e |-> Empty]
             bad == [called |-> TRUE, ok |-> FALSE, text |-> action,
                     e |-> <<Lit("to_python_code: ")>> \o action]
         IN  IF action \in space.recognized THEN {good}
             ELSE IF Len(action) = 1 THEN {bad}
             ELSE {good, bad}

ActionError(e) ==
    [kind |-> "raise", exc |-> "ParseError", ans |-> NoDict,
     msg |-> <<Lit("Error while parsing action"), NL, Lit(": ")>> \o e
               \o <<NL, Lit("Make sure your answer is restricted to the allowed actions.")>>]

CheckedIgnoringError(extracted, outcome) == extracted

\* try: self.action_space.to_python_code(ans_dict['action'])
\* except Exception as e: raise ParseError(...)
\* return ans_dict
Checked(extracted, outcome) ==
    IF extracted.kind # "return" THEN extracted
    ELSE IF outcome.ok THEN extracted
    ELSE ActionError(outcome.e)

\* MyMainPrompt._parse_effectuator_answer
_parse_effectuator_answer(text, outcome) ==
    Checked(parse_html_tags_raise(text, <<"action", "explanation">>, <<>>), outcome)

\* MyActionSpace._parse_answer
_parse_answer(text, outcome) ==
    Checked(parse_html_tags_raise(text, <<"action">>, <<>>), outcome)

\* ans_dict.update(a); ans_dict.update(b)
Update(a, b) ==
    [key \in DOMAIN a \cup DOMAIN b |-> IF key \in DOMAIN b THEN b[key] ELSE a[key]]

\* MyMainPrompt._parse_encoder_answer
_parse_encoder_answer(text) ==
    LET think == parse_html_tags_raise(text, <<>>, <<"think">>)
        required == parse_html_tags_raise(text, <<"state", "progress">>, <<>>)
    IN  IF required.kind # "return" THEN required
        ELSE [required EXCEPT !.ans = Update(think.ans, required.ans)]

\* MyMainPrompt._parse_policy_answer
_parse_policy_answer(text) == parse_html_tags_raise(text, <<"strategy">>, <<>>)

\* the call of to_python_code a parser makes on the reply, if it makes one
Compile(space, text, keys) ==
    LET extracted == parse_html_tags_raise(text, keys, <<>>)
    IN  IF extracted.kind = "return"
        THEN ToPythonCode(space, extracted.ans["action"])
        ELSE {NotCalled}

ParseEffectuator ==
    /\ parser = "none"
    /\ \E outcome \in Compile(action_space, text_answer, <<"action", "explanation">>) :
          /\ compiled' = outcome
          /\ parsed' = _parse_effectuator_answer(text_answer, outcome)
    /\ parser' = "effectuator"
    /\ UNCHANGED <<text_answer, action_space>>
    /\ UNCHANGED <<fragVars, mainVars>>

\* MyActionSpace holds the action set of _get_my_action_space()
ParseActionSpace ==
    /\ parser = "none"
    /\ \E outcome \in Compile(HighLevelActionSet, text_answer, <<"action">>) :
          /\ compiled' = outcome
          /\ parsed' = _parse_answer(text_answer, outcome)
    /\ parser' = "action_space"
    /\ UNCHANGED <<text_answer, action_space>>
    /\ UNCHANGED <<fragVars, mainVars>>

ParseEncoder ==
    /\ parser = "none"
    /\ parsed' = _parse_encoder_answer(text_answer)
    /\ parser' = "encoder"
    /\ UNCHANGED <<text_answer, action_space, compiled>>
    /\ UNCHANGED <<fragVars, mainVars>>

ParsePolicy ==
    /\ parser = "none"
    /\ parsed' = _parse_policy_answer(text_answer)
    /\ parser' = "policy"
    /\ UNCHANGED <<text_answer, action_space, compiled>>
    /\ UNCHANGED <<fragVars, mainVars>>

\* the reply is dealt with; the same reply can be given to another parser
Forget ==
    /\ parser # "none"
    /\ parser' = "none"
    /\ compiled' = NotCalled
    /\ parsed' = NotParsed
    /\ UNCHANGED <<text_answer, action_space>>
    /\ UNCHANGED <<fragVars, mainVars>>

InitParser ==
    /\ IdleFragment
    /\ IdleMain
    /\ debug = TRUE
    /\ text_answer \in Replies
    /\ action_space \in {NoActionSpace, HighLevelActionSet}
    /\ parser = "none"
    /\ compiled = NotCalled
    /\ parsed = NotParsed

NextParser == ParseEffectuator \/ ParseActionSpace \/ ParseEncoder \/ ParsePolicy \/ Forget

SpecParser == InitParser /\ [][NextParser]_vars

----------------------------------------------------------------------------
(* Properties of the fragments *)

\* the value of the visibility flag at this moment, read off the state
VisibleNow ==
    CASE _visible.type = "callable" -> flag
      [] _visible.type = "bool" -> _visible.b
      [] OTHER -> _visible.s # <<>>

IsMarker(tok) == tok.k = "... Deleted {} lines to reduce prompt size."
EndsWithMarker(text) ==
    Len(text) >= 2 /\ IsMarker(text[Len(text)]) /\ text[Len(text) - 1] = NL
\* the count the marker reports
Reported(text) == text[Len(text)].n
LineCount(text) == Len(splitlines(text))

\* floor(n * (1 - f)) for the shrink fraction f = shrink_speed_num / shrink_speed_den
Floor(n) == (n * (shrink_speed_den - shrink_speed_num)) \div shrink_speed_den

ShrinkStep == op' = "shrink" /\ shrink_calls' # shrink_calls
PostThreshold == VisibleNow /\ shrink_calls >= start_trunkate_iteration

\* C4: the first post-threshold shrink() of a visible fragment whose text has N
\* lines leaves floor(N * (1 - f)) lines besides the appended marker line, and
\* the marker reports N - floor(N * (1 - f)) deleted lines.
C4_FirstShrinkKeepsFloor ==
    [][(ShrinkStep /\ PostThreshold /\ ~EndsWithMarker(_prompt)) =>
         /\ EndsWithMarker(_prompt')
         /\ LineCount(_prompt') - 1 = Floor(LineCount(_prompt))
         /\ Reported(_prompt') = LineCount(_prompt) - Floor(LineCount(_prompt))]_vars

\* C5: a shrink() call made at or past the threshold never leaves the text with
\* more lines than it had before the call.
C5_ShrinkNeverGrows ==
    [][(ShrinkStep /\ shrink_calls >= start_trunkate_iteration) =>
         LineCount(_prompt') <= LineCount(_prompt)]_vars

ClaimedStart ==
    CASE kind = "HTML" -> 5
      [] kind = "AXTree" -> 10
      [] OTHER -> start_trunkate_iteration

\* C6: every shrink() call advances the call counter by exactly one; a call made
\* after fewer than start_trunkate_iteration earlier calls (5 for HTML, 10 for
\* AXTree), or while the fragment is invisible, changes neither the text nor
\* the deleted-line count.
C6_NoOpBeforeThresholdOrInvisible ==
    [][(op' = "shrink" \/ shrink_calls' # shrink_calls) =>
         /\ shrink_calls' = shrink_calls + 1
         /\ (shrink_calls < ClaimedStart \/ ~VisibleNow) =>
               (_prompt' = _prompt /\ deleted_lines' = deleted_lines)]_vars

C6_Witness ==
    /\ op = "shrink" /\ kind = "HTML" /\ VisibleNow
    /\ shrink_calls = 5 /\ deleted_lines = 0 /\ ~EndsWithMarker(_prompt)

SameTextAndCount(a, b) == a.p = b.p /\ a.deleted = b.deleted

\* C7 as claimed: in every state of a truncating fragment, two shrink() calls
\* in a row leave the text and the deleted-line count as one call does.
C7_ShrinkIdempotent ==
    kind \in Shrinkable =>
        SameTextAndCount(ShrinkOf(ShrinkOf(Frag)), ShrinkOf(Frag))

\* C7 as amended: two shrink() calls in a row leave the text and the
\* deleted-line count as one call does exactly when the second call is a
\* no-op, that is when it is made after fewer than start_trunkate_iteration
\* earlier calls or while the fragment is invisible.
C7_IdempotentOnlyWhileNoOp ==
    kind \in Shrinkable =>
        (SameTextAndCount(ShrinkOf(ShrinkOf(Frag)), ShrinkOf(Frag))
           <=> (shrink_calls + 1 < start_trunkate_iteration \/ ~VisibleNow))

C7_Witness ==
    /\ kind \in Shrinkable /\ op = "shrink" /\ VisibleNow
    /\ shrink_calls > start_trunkate_iteration /\ EndsWithMarker(_prompt)
    /\ ~SameTextAndCount(ShrinkOf(ShrinkOf(Frag)), ShrinkOf(Frag))

\* C8: a render of a fragment whose visibility flag is false at that render
\* returns the empty string for prompt, abstract_ex and concrete_ex; a render
\* of a visible fragment returns its current texts unchanged.
C8_InvisibleRendersEmpty ==
    op = "render" =>
        IF VisibleNow
        THEN rendered = [prompt |-> _prompt, abstract_ex |-> _abstract_ex,
                         concrete_ex |-> _concrete_ex]
        ELSE rendered = [prompt |-> Empty, abstract_ex |-> Empty,
                         concrete_ex |-> Empty]

C8_Witness ==
    /\ op = "render" /\ ~VisibleNow /\ _prompt # Empty /\ shrink_calls > 0
    /\ rendered.prompt = Empty

\* the lines of a text other than its final marker line
Retained(text) ==
    IF EndsWithMarker(text)
    THEN Take(splitlines(text), LineCount(text) - 1)
    ELSE splitlines(text)

IsPrefix(a, b) == Len(a) <= Len(b) /\ a = Take(b, Len(a))

\* the number of leading lines of the original text that are still the
\* leading retained lines of the text
OriginalLinesPresent ==
    LET kept == Retained(_prompt)
        lines == splitlines(original)
        shorter == IF Len(kept) <= Len(lines) THEN Len(kept) ELSE Len(lines)
        Agree == {k \in 0..shorter : Take(kept, k) = Take(lines, k)}
    IN  CHOOSE k \in Agree : \A j \in Agree : j <= k

\* C11: after any number of shrink() calls on a truncating fragment, the lines
\* of its text other than the final marker line are a prefix of the lines of
\* the original text: no earlier marker line is among them and no line is
\* reordered or reintroduced.
C11_RetainedIsPrefixOfOriginal ==
    kind \in Shrinkable => IsPrefix(Retained(_prompt), splitlines(original))

\* C12: once shrink() has truncated a fragment, the count its trailing marker
\* line reports is the number of original lines removed so far: the line count
\* of the original text minus the number of original lines still present.
C12_MarkerCountsRemovedLines ==
    (kind \in Shrinkable /\ EndsWithMarker(_prompt)) =>
        /\ Reported(_prompt) = deleted_lines
        /\ Reported(_prompt) = LineCount(original) - OriginalLinesPresent

----------------------------------------------------------------------------
(* Properties of the main prompt *)

NumObs == Len(obs_history)
NumStates == Len(states)
NumStrategies == Len(strategies)
NumActions == Len(actions)

\* the five length predicates, as the specification words them
Holding ==
    (IF NumObs = NumStates + 1 /\ NumStates = NumStrategies
       THEN {"encoding"} ELSE {})
    \cup (IF NumObs = NumStates /\ NumStates = NumStrategies + 1 /\ NumStrategies = NumActions
       THEN {"strategy"} ELSE {})
    \cup (IF NumObs = NumStates /\ NumStates = NumStrategies /\ NumStrategies = NumActions + 1
       THEN {"policy"} ELSE {})
    \cup (IF NumObs <= NumStates /\ NumStates = NumStrategies /\ NumStrategies >= NumActions + 1
       THEN {"forward-dynamics"} ELSE {})
    \cup (IF NumObs < NumStates /\ NumStates = NumStrategies + 1
       THEN {"rollout"} ELSE {})

\* the first of them in the order encoding, strategy, policy, forward-dynamics, rollout
FirstHolding ==
    CASE "encoding" \in Holding -> "encoding"
      [] "strategy" \in Holding -> "strategy"
      [] "policy" \in Holding -> "policy"
      [] "forward-dynamics" \in Holding -> "forward-dynamics"
      [] "rollout" \in Holding -> "rollout"
      [] OTHER -> "none"

Toks(text) == {text[i] : i \in 1..Len(text)}
IsContent(tok) ==
    tok.k \in {"axtree_txt", "last_action_error", "state", "strategy", "action",
               "active_strategy", "None"}
\* the pieces of caller-supplied content (and a formatted None) a text holds
ContentOf(text) == {tok \in Toks(text) : IsContent(tok)}

LatestObservation ==
    Toks(Final(obs_history).axtree_txt) \cup Toks(Final(obs_history).last_action_error)
LatestState == Toks(Final(states))
LatestStrategy == Toks(Final(strategies))
Constructed == pc = "built"

\* C1 as claimed: whenever the constructor selects a current-step rule, exactly
\* one of the five length predicates holds.
C1_ExactlyOnePredicate ==
    (Constructed /\ obs.set) => Cardinality(Holding) = 1

\* C1 as amended: whenever the constructor selects a current-step rule, exactly
\* one of the five predicates holds, except that a tuple satisfying the policy
\* predicate satisfies the forward-dynamics predicate too (and no other); for
\* those tuples the policy rule, tested first, is the one applied (the text
\* carries the latest observation, which forward-dynamics never renders).
C1_OneOrPolicyOverlap ==
    (Constructed /\ obs.set) =>
        IF "policy" \in Holding
        THEN /\ Holding = {"policy", "forward-dynamics"}
             /\ Toks(Final(obs_history).axtree_txt) \subseteq Toks(obs.text)
        ELSE Cardinality(Holding) = 1

C1_Witness ==
    /\ Constructed /\ obs.set /\ Holding = {"policy", "forward-dynamics"}
    /\ NumStates = 2

ExpectedContent ==
    CASE FirstHolding = "encoding" -> LatestObservation
      [] FirstHolding = "strategy" -> LatestObservation \cup LatestState
      [] FirstHolding = "policy" ->
           LatestObservation \cup LatestState \cup Toks(active_strategy)
      [] FirstHolding = "forward-dynamics" -> LatestState \cup LatestStrategy
      [] FirstHolding = "rollout" -> LatestState
      [] OTHER -> {}

Lengths == <<NumObs, NumStates, NumStrategies, NumActions>>

\* C2: the current-step text is the one of the first matching rule in the order
\* encoding, strategy, policy, forward-dynamics, rollout.  Of the caller's
\* content it holds exactly: the latest observation (encoding); the latest
\* observation and the latest state (strategy); those and the active_strategy
\* argument (policy); the latest state and strategies[-1] (forward-dynamics);
\* the latest state (rollout).  (3,2,2,1) selects encoding, (2,2,1,1) strategy.
C2_FirstMatchingRule ==
    (Constructed /\ obs.set) =>
        /\ FirstHolding # "none"
        /\ ContentOf(obs.text) = ExpectedContent
        /\ Lengths = <<3, 2, 2, 1>> =>
              ContentOf(obs.text) = Toks(obs_history[3].axtree_txt)
                                      \cup Toks(obs_history[3].last_action_error)
        /\ Lengths = <<2, 2, 1, 1>> =>
              ContentOf(obs.text) = Toks(obs_history[2].axtree_txt)
                                      \cup Toks(obs_history[2].last_action_error)
                                      \cup Toks(states[2])

C2_Witness ==
    /\ Constructed /\ obs.set /\ Lengths = <<2, 2, 1, 1>>
    /\ Tok("state", 2) \in Toks(obs.text)

HistoryPrecondition == NumStates = NumStrategies \/ NumStates = NumStrategies + 1

\* C3 as claimed: for a length tuple that matches none of the five predicates
\* the constructor raises no error and leaves the current-step text unset.
C3_UnmatchedIsSilent ==
    (pc # "new" /\ Holding = {}) => (Constructed /\ ~obs.set)

\* C3 as amended: for a length tuple that matches none of the five predicates
\* no current-step text is produced; the constructor raises no error when
\* len(states) is len(strategies) or len(strategies) + 1, and otherwise
\* get_history's assertion makes it raise AssertionError (where assert
\* statements are executed).
C3_UnmatchedUnsetOrAssertion ==
    (pc # "new" /\ Holding = {}) =>
        /\ ~obs.set
        /\ HistoryPrecondition => Constructed
        /\ (debug /\ ~HistoryPrecondition) => (pc = "raised" /\ err = "AssertionError")

C3_Witness ==
    /\ Constructed /\ Holding = {} /\ ~obs.set /\ NumStates = 2 /\ NumObs = 3

IsStepHeader(tok) == tok.k = "## Step {}"
IsHeaderOrContent(tok) == IsStepHeader(tok) \/ IsContent(tok)

\* what the claim expects of steps k .. n - 1: the header of step k, states[k],
\* strategies[k], and actions[k] when k < len(actions)  (k counts from 0)
RECURSIVE ExpectedSteps(_, _, _)
ExpectedSteps(args, k, n) ==
    IF k >= n THEN <<>>
    ELSE <<Tok("## Step {}", k)>> \o args.states[k + 1] \o args.strategies[k + 1]
           \o (IF k < Len(args.actions) THEN args.actions[k + 1] ELSE <<>>)
           \o ExpectedSteps(args, k + 1, n)

\* C10: for len(states) = len(strategies) or len(strategies) + 1, get_history
\* raises nothing whatever the length of actions, renders max(0, len(states) - 1)
\* steps in increasing order under the headers Step 0 .. Step len(states) - 2,
\* step k holding states[k], strategies[k], and actions[k] exactly when
\* k < len(actions); the last state is not in the history.
C10_HistorySteps ==
    /\ (pc # "new" /\ HistoryPrecondition) => Constructed
    /\ Constructed =>
        LET args == history_args
            S == Len(args.states)
            n == IF S >= 1 THEN S - 1 ELSE 0
        IN  /\ Len(history_steps) = n
            /\ SelectSeq(history, IsHeaderOrContent) = ExpectedSteps(args, 0, n)
            /\ \A k \in 0..(n - 1) :
                  ContentOf(history_steps[k + 1]) =
                      Toks(args.states[k + 1]) \cup Toks(args.strategies[k + 1])
                        \cup (IF k < Len(args.actions) THEN Toks(args.actions[k + 1]) ELSE {})
            /\ S >= 1 => Toks(Final(args.states)) \cap Toks(history) = {}

C10_Witness ==
    /\ Constructed /\ Len(history_steps) = 3 /\ Len(history_args.actions) = 2
    /\ Tok("action", 2) \in Toks(history)
    /\ Tok("## Step {}", 2) \in Toks(history)

\* the indices, in the caller's sequences, of the state, the strategy and the
\* action a rendered history step holds
IndicesOf(step) ==
    {tok.n : tok \in {t \in ContentOf(step) : t.k \in {"state", "strategy", "action"}}}

\* C13: in encoding mode (O = S + 1 and S = T), whatever the length of actions,
\* every step of the history kept by the constructor holds a state and a
\* strategy, and the state, the strategy and the action it holds have the same
\* index in the caller's sequences.
C13_EncodingStepsShareIndex ==
    (Constructed /\ "encoding" \in Holding) =>
        \A k \in 1..Len(history_steps) :
            /\ \E tok \in ContentOf(history_steps[k]) : tok.k = "state"
            /\ \E tok \in ContentOf(history_steps[k]) : tok.k = "strategy"
            /\ Cardinality(IndicesOf(history_steps[k])) = 1

----------------------------------------------------------------------------
(* Properties of the parsers *)

RequiredTags ==
    IF parser = "effectuator" THEN {"action", "explanation"} ELSE {"action"}
TagsOf(text) == {text[i].tag : i \in 1..Len(text)}
ActionParser == parser \in {"effectuator", "action_space"}

\* C9: the effectuator parser and MyActionSpace._parse_answer return exactly when
\* every required tag is in the reply and the extracted action compiles, and
\* they return the extracted action, the text that was compiled, as it is;
\* when the compiler raises, they raise a ParseError whose message carries the
\* compiler's message, and return nothing.
C9_ReturnsOnlyCompiledAction ==
    ActionParser =>
        /\ parsed.kind \in {"return", "raise"}
        /\ parsed.kind = "return" <=>
              (RequiredTags \subseteq TagsOf(text_answer) /\ compiled.called /\ compiled.ok)
        /\ compiled.called <=> RequiredTags \subseteq TagsOf(text_answer)
        /\ parsed.kind = "return" =>
              /\ parsed.ans["action"] = compiled.text
              /\ Occurrences(text_answer, "action") = <<Click41>> =>
                    parsed.ans["action"] = Click41
        /\ (compiled.called /\ ~compiled.ok) =>
              /\ parsed.kind = "raise"
              /\ parsed.exc = "ParseError"
              /\ \E i \in 1..Len(parsed.msg) :
                    SubSeq(parsed.msg, i, i + Len(compiled.e) - 1) = compiled.e

C9_Witness ==
    /\ parser = "effectuator" /\ ~action_space.none
    /\ Occurrences(text_answer, "action") = <<Click41>>
    /\ parsed.kind = "return" /\ parsed.ans["action"] = Click41

====
